---- MODULE Spec2Model ----
(***************************************************************************)
(* Model of src/main.py (peterju/normalSound): the batch loudness          *)
(* normaliser.  The interface thread runs start_processing and             *)
(* process_complete; every press of the process button starts a daemon     *)
(* thread running process_thread, which calls normalize_audio and then     *)
(* schedules process_complete on the interface thread with form.after.     *)
(*                                                                         *)
(* Times are kept in hundredths of a second (the patterns capture exactly  *)
(* two decimals), and progress values are exact fractions <<num, den>> in  *)
(* lowest terms, so the float expressions of the source are modelled over  *)
(* the rationals (rounding is not modelled).                               *)
(***************************************************************************)
EXTENDS Integers, Sequences, FiniteSets, TLC

\* Largest number of paths in the file list when the button is pressed.
MaxFiles == 2
\* Number of times the process button is pressed with a non-empty list.
MaxBatches == 2

Batches == 1..MaxBatches
\* Python's None as the value of 'duration' (every real duration is >= 0)
None == -1
\* re.search found nothing
NoMatch == <<>>

(***************************************************************************)
(* Exact fractions.                                                        *)
(***************************************************************************)
RECURSIVE GCD(_, _)
GCD(a, b) == IF b = 0 THEN a ELSE GCD(b, a % b)

Frac(n, d) == LET g == GCD(n, d) IN <<n \div g, d \div g>>
RAdd(x, y) == Frac(x[1] * y[2] + y[1] * x[2], x[2] * y[2])
RMul(x, y) == Frac(x[1] * y[1], x[2] * y[2])
RLeq(x, y) == x[1] * y[2] <= y[1] * x[2]
RLt(x, y) == x[1] * y[2] < y[1] * x[2]
Zero == Frac(0, 1)
One == Frac(1, 1)

(***************************************************************************)
(* The diagnostic stream.  A line is what the two re.search calls find in  *)
(* it: the groups of the first "Duration: HH:MM:SS.ss" and of the first    *)
(* "time=HH:MM:SS.ss", or NoMatch.  A stamp is <<HH, MM, SS.ss * 100>>.    *)
(***************************************************************************)
Stamps == {<<0, 0, 0>>, <<0, 0, 3000>>, <<0, 1, 0>>}
Lines == [dur : Stamps \cup {NoMatch}, time : Stamps \cup {NoMatch}]

\* float(g1) * 3600 + float(g2) * 60 + float(g3), in hundredths of a second
Seconds(st) == st[1] * 360000 + st[2] * 6000 + st[3]

\* "not duration": None and 0.0 are both false in a condition
Falsy(d) == d = None \/ d = 0

\* Faulty variant: every Duration: line overwrites the duration
DurationUpdateAlways(d, ln) == IF ln.dur /= NoMatch THEN Seconds(ln.dur) ELSE d
\* if duration_match and not duration: duration = ...
DurationUpdate(d, ln) ==
    IF ln.dur /= NoMatch /\ Falsy(d) THEN Seconds(ln.dur) ELSE d

\* Faulty variant: the offset i / total_files is left out
ProgressNoSlot(current_time, d, i, total) ==
    RMul(Frac(current_time, d), Frac(1, total))
\* (current_time / duration) * (1 / total_files) + (i / total_files)
Progress(current_time, d, i, total) ==
    RAdd(RMul(Frac(current_time, d), Frac(1, total)), Frac(i, total))

\* except subprocess.CalledProcessError
Catches(exc) == exc = "CalledProcessError"

\* what subprocess.Popen can do: start the process, or raise OSError
PopenOutcomes == {"started", "OSError"}

VARIABLES
    progress_var,   \* the tk.DoubleVar
    lastWrite,      \* who set progress_var last: thread, batch, statement
    nwrites,        \* parity of the number of progress_var.set calls
    pc,             \* per batch: where its worker thread is
    total_files,    \* per batch: len(input_files)
    file_i,         \* per batch: the loop index i
    duration,       \* per batch: the local 'duration'
    nDuration,      \* per batch: Duration: lines read from this file (0, 1, more)
    sawTime,        \* per batch: a time= line was read from this file
    results,        \* per batch: the outcome printed for each finished file
    attempted,      \* per batch: indices of the files Popen was called for
    final_written,  \* per batch: line 99 has run
    afterQueue,     \* callbacks scheduled with form.after, oldest first
    completed       \* per batch: how often process_complete has run

vars == <<progress_var, lastWrite, nwrites, pc, total_files, file_i, duration,
          nDuration, sawTime, results, attempted, final_written, afterQueue, completed>>

workerVars == <<pc, total_files, file_i, duration, nDuration, sawTime, results,
                attempted, final_written>>

Write(thread, b, kind, val) ==
    /\ progress_var' = val
    /\ lastWrite' = [thread |-> thread, batch |-> b, kind |-> kind]
    /\ nwrites' = (nwrites + 1) % 2

NoWrite == UNCHANGED <<progress_var, lastWrite, nwrites>>

Init ==
    /\ progress_var = Zero
    /\ lastWrite = [thread |-> "ui", batch |-> 0, kind |-> "init"]
    /\ nwrites = 0
    /\ pc = [b \in Batches |-> "idle"]
    /\ total_files = [b \in Batches |-> 0]
    /\ file_i = [b \in Batches |-> 0]
    /\ duration = [b \in Batches |-> None]
    /\ nDuration = [b \in Batches |-> 0]
    /\ sawTime = [b \in Batches |-> FALSE]
    /\ results = [b \in Batches |-> <<>>]
    /\ attempted = [b \in Batches |-> <<>>]
    /\ final_written = [b \in Batches |-> FALSE]
    /\ afterQueue = <<>>
    /\ completed = [b \in Batches |-> 0]

\* The batch a press of the button starts: the next unused one.
NewBatch(b) == pc[b] = "idle" /\ \A c \in Batches : c < b => pc[c] /= "idle"

\* Faulty variant: the completion callback is scheduled when the thread is started
start_processing_eager(n) ==
    IF n = 0
    THEN UNCHANGED vars
    ELSE \E b \in Batches :
           /\ NewBatch(b)
           /\ Write("ui", b, "reset", Zero)
           /\ pc' = [pc EXCEPT ![b] = "popen"]
           /\ total_files' = [total_files EXCEPT ![b] = n]
           /\ file_i' = [file_i EXCEPT ![b] = 0]
           /\ afterQueue' = Append(afterQueue, b)
           /\ UNCHANGED <<duration, nDuration, sawTime, results, attempted,
                          final_written, completed>>

(***************************************************************************)
(* start_processing, on the interface thread, with n paths in the list     *)
(* (n = 0: the warning dialog, and nothing else).                          *)
(***************************************************************************)
start_processing(n) ==
    IF n = 0
    THEN UNCHANGED vars
    ELSE \E b \in Batches :
           /\ NewBatch(b)
           /\ Write("ui", b, "reset", Zero)
           /\ pc' = [pc EXCEPT ![b] = "popen"]
           /\ total_files' = [total_files EXCEPT ![b] = n]
           /\ file_i' = [file_i EXCEPT ![b] = 0]
           /\ UNCHANGED <<duration, nDuration, sawTime, results, attempted,
                          final_written, afterQueue, completed>>

\* The worker thread of batch b ends, by returning or by an exception that
\* nothing catches; the locals of normalize_audio are gone.
ThreadEnds(b, how) ==
    /\ pc' = [pc EXCEPT ![b] = how]
    /\ total_files' = [total_files EXCEPT ![b] = 0]
    /\ file_i' = [file_i EXCEPT ![b] = 0]
    /\ duration' = [duration EXCEPT ![b] = None]
    /\ nDuration' = [nDuration EXCEPT ![b] = 0]
    /\ sawTime' = [sawTime EXCEPT ![b] = FALSE]
    /\ results' = [results EXCEPT ![b] = <<>>]
    /\ attempted' = [attempted EXCEPT ![b] = <<>>]

\* The for loop moves to the next file, or leaves the loop.
NextFile(b) ==
    IF file_i[b] + 1 < total_files[b]
    THEN /\ file_i' = [file_i EXCEPT ![b] = file_i[b] + 1]
         /\ pc' = [pc EXCEPT ![b] = "popen"]
    ELSE /\ file_i' = file_i
         /\ pc' = [pc EXCEPT ![b] = "final"]

\* Faulty variant: 'duration = None' is done once, before the loop
normalize_audio_popen_keep(b, outcome) ==
    /\ pc[b] = "popen"
    /\ IF outcome = "started"
       THEN /\ duration' = duration
            /\ nDuration' = [nDuration EXCEPT ![b] = 0]
            /\ sawTime' = [sawTime EXCEPT ![b] = FALSE]
            /\ attempted' = [attempted EXCEPT ![b] = Append(@, file_i[b])]
            /\ pc' = [pc EXCEPT ![b] = "scan"]
            /\ UNCHANGED <<total_files, file_i, results>>
       ELSE IF Catches(outcome)
       THEN /\ NextFile(b)
            /\ results' = [results EXCEPT ![b] = Append(@, "error")]
            /\ attempted' = [attempted EXCEPT ![b] = Append(@, file_i[b])]
            /\ UNCHANGED <<total_files, duration, nDuration, sawTime>>
       ELSE ThreadEnds(b, "raised")
    /\ NoWrite
    /\ UNCHANGED <<final_written, afterQueue, completed>>

(***************************************************************************)
(* normalize_audio, lines 56-72: build the command and start the process.  *)
(***************************************************************************)
normalize_audio_popen(b, outcome) ==
    /\ pc[b] = "popen"
    /\ IF outcome = "started"
       THEN /\ duration' = [duration EXCEPT ![b] = None]
            /\ nDuration' = [nDuration EXCEPT ![b] = 0]
            /\ sawTime' = [sawTime EXCEPT ![b] = FALSE]
            /\ attempted' = [attempted EXCEPT ![b] = Append(@, file_i[b])]
            /\ pc' = [pc EXCEPT ![b] = "scan"]
            /\ UNCHANGED <<total_files, file_i, results>>
       ELSE IF Catches(outcome)
       THEN /\ NextFile(b)
            /\ results' = [results EXCEPT ![b] = Append(@, "error")]
            /\ attempted' = [attempted EXCEPT ![b] = Append(@, file_i[b])]
            /\ UNCHANGED <<total_files, duration, nDuration, sawTime>>
       ELSE ThreadEnds(b, "raised")
    /\ NoWrite
    /\ UNCHANGED <<final_written, afterQueue, completed>>

(***************************************************************************)
(* normalize_audio, lines 73-88: one line of process.stderr.               *)
(***************************************************************************)
normalize_audio_line(b, ln) ==
    /\ pc[b] = "scan"
    /\ LET d == DurationUpdate(duration[b], ln) IN
         /\ duration' = [duration EXCEPT ![b] = d]
         /\ IF ln.time /= NoMatch /\ ~Falsy(d)
            THEN Write("worker", b, "scan",
                       Progress(Seconds(ln.time), d, file_i[b], total_files[b]))
            ELSE NoWrite
    /\ nDuration' = [nDuration EXCEPT ![b] =
                        IF ln.dur = NoMatch THEN @ ELSE IF @ = 0 THEN 1 ELSE 2]
    /\ sawTime' = [sawTime EXCEPT ![b] = @ \/ ln.time /= NoMatch]
    /\ UNCHANGED <<pc, total_files, file_i, results, attempted, final_written,
                   afterQueue, completed>>

\* Faulty variant: a missing output file ends the loop
normalize_audio_wait_abort(b, returncode, exists) ==
    /\ pc[b] = "scan"
    /\ results' = [results EXCEPT ![b] =
                      Append(@, IF exists THEN "succeeded" ELSE "failed")]
    /\ IF exists
       THEN NextFile(b)
       ELSE pc' = [pc EXCEPT ![b] = "final"] /\ file_i' = file_i
    /\ NoWrite
    /\ UNCHANGED <<total_files, duration, nDuration, sawTime, attempted, final_written,
                   afterQueue, completed>>

(***************************************************************************)
(* normalize_audio, lines 90-95: the stream ends, process.wait() returns   *)
(* the exit code (discarded), the output file exists or not.               *)
(***************************************************************************)
normalize_audio_wait(b, returncode, exists) ==
    /\ pc[b] = "scan"
    /\ results' = [results EXCEPT ![b] =
                      Append(@, IF exists THEN "succeeded" ELSE "failed")]
    /\ NextFile(b)
    /\ NoWrite
    /\ UNCHANGED <<total_files, duration, nDuration, sawTime, attempted, final_written,
                   afterQueue, completed>>

(***************************************************************************)
(* normalize_audio, line 99: progress_var.set(1.0).                        *)
(***************************************************************************)
normalize_audio_final(b) ==
    /\ pc[b] = "final"
    /\ Write("worker", b, "final", One)
    /\ final_written' = [final_written EXCEPT ![b] = TRUE]
    /\ pc' = [pc EXCEPT ![b] = "after"]
    /\ UNCHANGED <<total_files, file_i, duration, nDuration, sawTime, results,
                   attempted, afterQueue, completed>>

(***************************************************************************)
(* process_thread, line 143: form.after(0, process_complete); the thread   *)
(* ends.                                                                   *)
(***************************************************************************)
process_thread(b) ==
    /\ pc[b] = "after"
    /\ afterQueue' = Append(afterQueue, b)
    /\ ThreadEnds(b, "done")
    /\ NoWrite
    /\ UNCHANGED <<final_written, completed>>

\* Faulty variant: the callback sets the bar to full instead of resetting it
process_complete_full ==
    /\ afterQueue /= <<>>
    /\ Write("ui", Head(afterQueue), "complete", One)
    /\ completed' = [completed EXCEPT ![Head(afterQueue)] = @ + 1]
    /\ afterQueue' = Tail(afterQueue)
    /\ UNCHANGED workerVars

(***************************************************************************)
(* process_complete, on the interface thread: the oldest scheduled         *)
(* callback runs (dialog, os.startfile, progress_var.set(0)).              *)
(***************************************************************************)
process_complete ==
    /\ afterQueue /= <<>>
    /\ Write("ui", Head(afterQueue), "complete", Zero)
    /\ completed' = [completed EXCEPT ![Head(afterQueue)] = @ + 1]
    /\ afterQueue' = Tail(afterQueue)
    /\ UNCHANGED workerVars

Next ==
    \/ \E n \in 0..MaxFiles : start_processing(n)
    \/ \E b \in Batches, o \in PopenOutcomes : normalize_audio_popen(b, o)
    \/ \E b \in Batches, ln \in Lines : normalize_audio_line(b, ln)
    \/ \E b \in Batches, rc \in {0, 1}, ex \in BOOLEAN : normalize_audio_wait(b, rc, ex)
    \/ \E b \in Batches : normalize_audio_final(b)
    \/ \E b \in Batches : process_thread(b)
    \/ process_complete

Spec == Init /\ [][Next]_vars

(***************************************************************************)
(* The same program with a user who presses the button only while no       *)
(* worker thread is alive (callbacks of earlier batches may be pending).   *)
(***************************************************************************)
WorkerAlive(b) == pc[b] \in {"popen", "scan", "final", "after"}

NextOneAtATime ==
    \/ /\ \A b \in Batches : ~WorkerAlive(b)
       /\ \E n \in 0..MaxFiles : start_processing(n)
    \/ \E b \in Batches, o \in PopenOutcomes : normalize_audio_popen(b, o)
    \/ \E b \in Batches, ln \in Lines : normalize_audio_line(b, ln)
    \/ \E b \in Batches, rc \in {0, 1}, ex \in BOOLEAN : normalize_audio_wait(b, rc, ex)
    \/ \E b \in Batches : normalize_audio_final(b)
    \/ \E b \in Batches : process_thread(b)
    \/ process_complete

SpecOneAtATime == Init /\ [][NextOneAtATime]_vars

TypeOK ==
    /\ pc \in [Batches -> {"idle", "popen", "scan", "final", "after", "done", "raised"}]
    /\ total_files \in [Batches -> 0..MaxFiles]
    /\ \A b \in Batches : WorkerAlive(b) => file_i[b] < total_files[b]
    /\ RLeq(Zero, progress_var)

(***************************************************************************)
(* Vocabulary of the properties.                                           *)
(***************************************************************************)
\* This step is a progress_var.set by the worker thread of batch b.
WorkerWrote(b) ==
    /\ nwrites' /= nwrites
    /\ lastWrite'.thread = "worker"
    /\ lastWrite'.batch = b

\* The indices 0 .. n-1 in input order.
InputOrder(n) == [k \in 1..n |-> k - 1]

\* hours*3600 + minutes*60 + seconds, in hundredths of a second
StampSeconds(st) == (st[1] * 3600 + st[2] * 60) * 100 + st[3]

\* i/N + (elapsed/D)/N
SlotValue(i, n, elapsed, d) == Frac(i * d + elapsed, n * d)

\* p lies in [i/N, (i+1)/N)
InSlot(p, i, n) == RLeq(Frac(i, n), p) /\ RLt(p, Frac(i + 1, n))

\* How often batch b's callback is waiting in the form.after queue.
Scheduled(b) == Cardinality({k \in 1..Len(afterQueue) : afterQueue[k] = b})

(***************************************************************************)
(* C1: when every process starts and exits, normalize_audio has called     *)
(* Popen for every file of the batch, in input order, by the time it       *)
(* leaves the loop, whatever the existence checks said; its last           *)
(* progress_var.set is the one of line 99, with the value 1.0, and it      *)
(* writes nothing after it.                                                *)
(***************************************************************************)
C1_AllFilesThenOne ==
    [][\A b \in Batches :
         /\ (pc[b] = "final" /\ pc'[b] = "after") =>
               /\ attempted[b] = InputOrder(total_files[b])
               /\ Len(results[b]) = total_files[b]
               /\ WorkerWrote(b)
               /\ progress_var' = One
         /\ pc[b] \in {"after", "done"} => ~WorkerWrote(b)]_vars

\* File 1 of a batch of two left no output file, file 2 was still processed,
\* and the batch has just written its final 1.0.
C1_Witness ==
    \E b \in Batches :
        /\ pc[b] = "after"
        /\ total_files[b] = 2
        /\ results[b][1] = "failed"
        /\ attempted[b] = <<0, 1>>
        /\ lastWrite = [thread |-> "worker", batch |-> b, kind |-> "final"]
        /\ progress_var = One

(***************************************************************************)
(* C2: a launch that raises does not make normalize_audio raise to its     *)
(* caller: no worker thread ever ends with an exception.                   *)
(***************************************************************************)
C2_NeverRaises == \A b \in Batches : pc[b] /= "raised"

(***************************************************************************)
(* C3: every value written while file i of N is scanned lies in            *)
(* [i/N, (i+1)/N).                                                         *)
(***************************************************************************)
C3_InSlot ==
    [][\A b \in Batches :
         (WorkerWrote(b) /\ lastWrite'.kind = "scan") =>
             InSlot(progress_var', file_i[b], total_files[b])]_vars

(***************************************************************************)
(* C4: within one batch run, from the reset at its start to its final      *)
(* 1.0, each value written is at least the value written before it.        *)
(***************************************************************************)
C4_Monotone ==
    [][(/\ nwrites' /= nwrites
        /\ lastWrite'.batch = lastWrite.batch
        /\ lastWrite.kind \in {"reset", "scan"}
        /\ lastWrite'.kind \in {"scan", "final"})
          => RLeq(progress_var, progress_var')]_vars

(***************************************************************************)
(* C5: at most one worker thread is alive at any time.                     *)
(***************************************************************************)
C5_OneWorker == Cardinality({b \in Batches : WorkerAlive(b)}) <= 1

(***************************************************************************)
(* C6: with a recorded duration D > 0, reading a line with a time= match   *)
(* makes exactly one write, of the value i/N + (elapsed/D)/N, where        *)
(* elapsed and D are hours*3600 + minutes*60 + seconds of the matched      *)
(* groups.                                                                 *)
(***************************************************************************)
C6_SlotFormula ==
    [][\A b \in Batches, ln \in Lines :
         normalize_audio_line(b, ln) =>
            /\ (duration'[b] /= duration[b] => duration'[b] = StampSeconds(ln.dur))
            /\ (ln.time /= NoMatch /\ duration'[b] > 0) =>
                  /\ WorkerWrote(b)
                  /\ lastWrite'.kind = "scan"
                  /\ progress_var' = SlotValue(file_i[b], total_files[b],
                                               StampSeconds(ln.time), duration'[b])]_vars

\* Duration: 00:01:00.00 then time=00:00:30.00 for the only file: 0.5
C6_Witness ==
    \E b \in Batches :
        /\ pc[b] = "scan"
        /\ total_files[b] = 1
        /\ duration[b] = 6000
        /\ sawTime[b]
        /\ lastWrite = [thread |-> "worker", batch |-> b, kind |-> "scan"]
        /\ progress_var = <<1, 2>>

(***************************************************************************)
(* C7: a line read while no Duration: line of the same file has been read  *)
(* (this line included) writes nothing, whatever an earlier file of the    *)
(* batch recorded.                                                         *)
(***************************************************************************)
C7_NoDurationNoWrite ==
    [][\A b \in Batches, ln \in Lines :
         (normalize_audio_line(b, ln) /\ nDuration'[b] = 0) =>
             /\ ~WorkerWrote(b)
             /\ progress_var' = progress_var]_vars

\* The second file has produced a time= line and no Duration: line yet; the
\* last write is still the one made while scanning the first file.
C7_Witness ==
    \E b \in Batches :
        /\ pc[b] = "scan"
        /\ file_i[b] = 1
        /\ sawTime[b]
        /\ nDuration[b] = 0
        /\ lastWrite = [thread |-> "worker", batch |-> b, kind |-> "scan"]

(***************************************************************************)
(* C8 as stated: once a Duration: line has set the duration, no later line *)
(* of the same stream changes it.                                          *)
(***************************************************************************)
C8_FirstMatchKept ==
    [][\A b \in Batches :
         (pc[b] = "scan" /\ pc'[b] = "scan" /\ duration[b] /= None) =>
             duration'[b] = duration[b]]_vars

(***************************************************************************)
(* C8 amended: the duration is set by the first Duration: match that       *)
(* carries a non-zero value and no later line changes it; a match of       *)
(* 00:00:00.00 is replaced by the next match.                              *)
(***************************************************************************)
C8_FirstNonZeroKept ==
    [][\A b \in Batches, ln \in Lines :
         normalize_audio_line(b, ln) =>
            /\ duration[b] > 0 => duration'[b] = duration[b]
            /\ ln.dur = NoMatch => duration'[b] = duration[b]
            /\ (duration[b] <= 0 /\ ln.dur /= NoMatch) =>
                   duration'[b] = StampSeconds(ln.dur)]_vars

\* A non-zero duration is recorded and a further Duration: line was read.
C8_Witness ==
    \E b \in Batches : pc[b] = "scan" /\ nDuration[b] = 2 /\ duration[b] > 0

(***************************************************************************)
(* C9 as stated: every write of a batch is made by the worker thread.      *)
(***************************************************************************)
C9_OnlyWorkerWrites == lastWrite.kind /= "init" => lastWrite.thread = "worker"

(***************************************************************************)
(* C9 amended: the interface thread writes progress_var only to reset it   *)
(* to 0 (at construction, at batch start, at completion); every other      *)
(* write, so every write of a non-zero value, is made by a worker thread.  *)
(***************************************************************************)
C9_UiWritesOnlyZero ==
    /\ lastWrite.thread = "ui" =>
          progress_var = Zero /\ lastWrite.kind \in {"init", "reset", "complete"}
    /\ lastWrite.thread = "worker" => lastWrite.kind \in {"scan", "final"}
    /\ lastWrite.thread \in {"ui", "worker"}

\* The completion callback has reset the progress of a finished batch.
C9_Witness ==
    \E b \in Batches :
        /\ completed[b] = 1
        /\ lastWrite = [thread |-> "ui", batch |-> b, kind |-> "complete"]

(***************************************************************************)
(* C10: a batch's process_complete is scheduled, and so runs and resets    *)
(* progress, only after the batch's worker has written the final 1.0,      *)
(* and it is scheduled and run at most once per batch.                     *)
(***************************************************************************)
C10_CompleteAfterFinal ==
    \A b \in Batches :
        /\ Scheduled(b) + completed[b] <= 1
        /\ Scheduled(b) + completed[b] > 0 => final_written[b]
        /\ (lastWrite.kind = "complete" /\ lastWrite.batch = b) =>
               final_written[b] /\ completed[b] = 1

\* Batch b's callback has run and reset the progress to 0.
C10_Witness ==
    \E b \in Batches :
        /\ completed[b] = 1
        /\ final_written[b]
        /\ Scheduled(b) = 0
        /\ lastWrite.kind = "complete"
        /\ lastWrite.batch = b
        /\ progress_var = Zero
====
